---- MODULE Spec2Model ----
(***************************************************************************)
(* Enrollment approval of the attendance backend.                          *)
(*                                                                         *)
(* Two versions of POST /approve-enrollment/:id are in the repository:     *)
(*   - src/server.js: the rule-based handler (prerequisite, CGPA, seats);  *)
(*     its behaviours are specification Spec;                              *)
(*   - src/unnamed/part_000: the handler that calls the face service       *)
(*     before approving; its behaviours are specification SpecGated.       *)
(* Both run against the same Firestore collections, which are the shared   *)
(* state.  Every await of a handler is a scheduling point: one action per  *)
(* awaited store or service call, together with the synchronous code that  *)
(* follows it up to the next await.                                        *)
(*                                                                         *)
(* CGPA values are in tenths (7.5 is 75).                                  *)
(***************************************************************************)
EXTENDS Integers, Sequences, FiniteSets, Bags, TLC

\* ------------------------------------------------------------------ bounds
\* Enrollment requests that /enroll creates in one behaviour.
MaxReq == 2
\* Invocations of POST /approve-enrollment/:id in one behaviour.
MaxCalls == 2
\* Writes to the users collection (create, profile save, delete) in one behaviour.
MaxUserOps == 1

\* ------------------------------------------------------- JavaScript values
\* A JavaScript value as stored in a document field: a number (tenths), a
\* string, or undefined (the field is missing).
Num(n) == [t |-> "number", n |-> n, s |-> ""]
Str(s) == [t |-> "string", n |-> 0, s |-> s]
Undefined == [t |-> "undefined", n |-> 0, s |-> ""]

\* The result of a numeric conversion: NaN, or a number in tenths.
NaN == [nan |-> TRUE, n |-> 0]
Real(n) == [nan |-> FALSE, n |-> n]

\* StringToNumber on the strings of the model: a decimal literal converts to
\* its value, the empty string to 0, anything else to NaN.
StringToNumber(s) ==
  CASE s = "8.6" -> Real(86)
    [] s = ""    -> Real(0)
    [] OTHER     -> NaN

\* Number(v): numbers convert to themselves, undefined to NaN, strings by
\* StringToNumber.
Number(v) ==
  CASE v.t = "number"    -> Real(v.n)
    [] v.t = "undefined" -> NaN
    [] v.t = "string"    -> StringToNumber(v.s)

\* a < b and a >= b on converted numbers: every comparison with NaN is false.
Less(a, b) == ~a.nan /\ ~b.nan /\ a.n < b.n
GreaterEq(a, b) == ~a.nan /\ ~b.nan /\ a.n >= b.n

\* Number-to-string of a template literal, for tenths: 75 is "7.5", 70 is "7".
DigitString(d) ==
  CASE d = 0 -> "0" [] d = 1 -> "1" [] d = 2 -> "2" [] d = 3 -> "3" [] d = 4 -> "4"
    [] d = 5 -> "5" [] d = 6 -> "6" [] d = 7 -> "7" [] d = 8 -> "8" [] d = 9 -> "9"
NumberToString(n) ==
  IF n % 10 = 0 THEN DigitString(n \div 10)
  ELSE DigitString(n \div 10) \o "." \o DigitString(n % 10)

\* String.prototype.toLowerCase on the course and subject strings of the model.
toLowerCase(s) ==
  CASE s = "Advanced Data Structures" -> "advanced data structures"
    [] s = "Physics"                  -> "physics"
    [] s = "Data Structures"          -> "data structures"
    [] OTHER                          -> s

\* ------------------------------------------------------------ course rules
\* A rule is an object read by property: prerequisite is a string, or "" when
\* the object has no such property (undefined, falsy); the three numbers are
\* JS values, Undefined when the object has no such property.
NoPrerequisite == ""
courseRules ==
  [c \in {"advanced data structures", "advanced machine learning"} |->
     IF c = "advanced data structures"
     THEN [prerequisite |-> "data structures", minCgpa |-> Num(75),
           strictCgpa |-> Num(85), seatLimit |-> Num(80)]
     ELSE [prerequisite |-> "machine learning", minCgpa |-> Num(75),
           strictCgpa |-> Num(85), seatLimit |-> Num(80)]]
DefaultRule ==
  [prerequisite |-> NoPrerequisite, minCgpa |-> Num(70), strictCgpa |-> Num(80),
   seatLimit |-> Num(80)]

\* courseRules is an object literal, so courseRules[course] also finds what
\* the object inherits from Object.prototype.  Of the inherited property names
\* two are their own lower case: "constructor" (the function Object) and
\* "__proto__" (Object.prototype).  Both values are truthy objects with none of
\* the properties of a rule.
InheritedKeys == {"constructor", "__proto__"}
InheritedValue ==
  [prerequisite |-> NoPrerequisite, minCgpa |-> Undefined, strictCgpa |-> Undefined,
   seatLimit |-> Undefined]

\* courseRules[course] || { default }
RuleFor(course) ==
  IF course \in DOMAIN courseRules THEN courseRules[course]
  ELSE IF course \in InheritedKeys THEN InheritedValue
  ELSE DefaultRule

\* ------------------------------------------------------------------ inputs
Uids == {"u1", "u2", "u3"}
\* The course strings a student submits to /enroll.
Courses == {"Advanced Data Structures", "Physics", "constructor"}
\* The cgpa values and the semesters arrays a profile save carries.
CgpaInputs == {Num(65), Num(86), Str("abc")}
SemesterInputs == {<< >>, << <<"data structures">> >>, << <<"Data Structures">> >>}

\* (student.semesters || []).flatMap(s => s.subjects || []): semesters is a
\* sequence of subject sequences, or undefined.
RECURSIVE Flatten(_)
Flatten(ss) == IF ss = << >> THEN << >> ELSE Head(ss) \o Flatten(Tail(ss))
CompletedSubjects(student) ==
  IF student.hasSemesters THEN Flatten(student.semesters) ELSE << >>
Includes(seq, x) == \E i \in 1..Len(seq) : seq[i] = x

\* ------------------------------------------------------------------- state
VARIABLES
  requests,     \* collection enrollment_requests: document id -> document
  users,        \* collection users: uid -> document
  enrollments,  \* collection enrollments: a bag of documents
  waitlist,     \* collection waitlist: a bag of documents
  calls,        \* the invocations of the approve handler: frame per call
  userOps       \* writes to users so far

vars == <<requests, users, enrollments, waitlist, calls, userOps>>

ReqIds == 1..MaxReq
CallIds == 1..MaxCalls

NoUser == [exists |-> FALSE, cgpa |-> Undefined, hasSemesters |-> FALSE, semesters |-> << >>]
NoReason == ""

Profile(cgpa, semesters) ==
  [exists |-> TRUE, cgpa |-> cgpa, hasSemesters |-> TRUE, semesters |-> semesters]
\* The document /create-student writes: no cgpa and no semesters field.
NewStudent == [exists |-> TRUE, cgpa |-> Undefined, hasSemesters |-> FALSE, semesters |-> << >>]

\* The students a behaviour starts with: u1 has completed the prerequisite and
\* has exactly the minimum CGPA of the listed courses, u2 has exactly the strict
\* CGPA of the default rule and no completed subject, u3 has no document.
InitialUsers ==
  [u \in Uids |->
     CASE u = "u1" -> Profile(Num(75), << <<"data structures">> >>)
       [] u = "u2" -> Profile(Num(80), << >>)
       [] OTHER    -> NoUser]

\* An enrollment record of an earlier approval (a student outside Uids).
Legacy(course) == [studentUid |-> "u0", course |-> course, cgpa |-> Num(79)]
LowerCourses == {toLowerCase(c) : c \in Courses}
\* The rule the configuration lists for a course, the default rule when it
\* lists none.
ListedOrDefault(course) ==
  IF course \in DOMAIN courseRules THEN courseRules[course] ELSE DefaultRule
\* A behaviour starts with one seat free in every course.
LegacyCount(course) == ListedOrDefault(course).seatLimit.n - 1

NoResponse == [status |-> 0, body |-> ""]
\* The frame of one invocation: its position, req.params.id, the fields of the
\* request snapshot (studentUid, status and the course the handler works with),
\* student.cgpa, seatCount, the reply of the face service, and the response.
IdleFrame ==
  [pc |-> "idle", id |-> 0, studentUid |-> "", status |-> "", course |-> "",
   cgpa |-> Undefined, seatCount |-> 0, reply |-> "none", res |-> NoResponse]

\* where("course", "==", course).get().size
CountWhere(coll, course) ==
  BagCardinality([e \in {d \in DOMAIN coll : d.course = course} |-> coll[e]])

\* collection.add(doc)
Add(coll, doc) == coll (+) SetToBag({doc})

Init ==
  /\ requests = << >>
  /\ users = InitialUsers
  /\ enrollments = [d \in {Legacy(c) : c \in LowerCourses} |-> LegacyCount(d.course)]
  /\ waitlist = EmptyBag
  /\ calls = [c \in CallIds |-> IdleFrame]
  /\ userOps = 0

\* ------------------------------------------------- the users and the intake
\* POST /enroll: a validated submission adds one pending request.
Enroll(uid, course) ==
  /\ Len(requests) < MaxReq
  /\ requests' = Append(requests,
       [studentUid |-> uid, course |-> course, status |-> "pending",
        reason |-> NoReason, encodingStatus |-> ""])
  /\ UNCHANGED <<users, enrollments, waitlist, calls, userOps>>

\* POST /create-student: a new account's document has no cgpa and no semesters.
CreateStudent(uid) ==
  /\ userOps < MaxUserOps
  /\ ~users[uid].exists
  /\ users' = [users EXCEPT ![uid] = NewStudent]
  /\ userOps' = userOps + 1
  /\ UNCHANGED <<requests, enrollments, waitlist, calls>>

\* POST /student/profile: set(..., {merge: true}) writes cgpa and semesters,
\* creating the document when there is none.
SaveProfile(uid, cgpa, semesters) ==
  /\ userOps < MaxUserOps
  /\ users' = [users EXCEPT ![uid] = Profile(cgpa, semesters)]
  /\ userOps' = userOps + 1
  /\ UNCHANGED <<requests, enrollments, waitlist, calls>>

\* Mutant of DeleteUser: the deletion cascades to the user's enrollment
\* records.
DeleteUser_CascadesToEnrollments(uid) ==
  /\ userOps < MaxUserOps
  /\ users[uid].exists
  /\ users' = [users EXCEPT ![uid] = NoUser]
  /\ enrollments' = [d \in {e \in DOMAIN enrollments : e.studentUid # uid} |-> enrollments[d]]
  /\ userOps' = userOps + 1
  /\ UNCHANGED <<requests, waitlist, calls>>

\* DELETE /delete-user/:uid
DeleteUser(uid) ==
  /\ userOps < MaxUserOps
  /\ users[uid].exists
  /\ users' = [users EXCEPT ![uid] = NoUser]
  /\ userOps' = userOps + 1
  /\ UNCHANGED <<requests, enrollments, waitlist, calls>>

\* ------------------------------------------ the decision rules of server.js
\* rule.prerequisite && !completedSubjects.includes(rule.prerequisite)
PrerequisiteMissing(rule, completedSubjects) ==
  /\ rule.prerequisite # NoPrerequisite
  /\ ~Includes(completedSubjects, rule.prerequisite)

\* Number(student.cgpa) < rule.minCgpa
BelowMinCgpa(cgpa, rule) == Less(Number(cgpa), Number(rule.minCgpa))

\* Mutant of AtCapacity: the limit itself still counts as a free seat.
AtCapacity_Exclusive(seatCount, rule) ==
  GreaterEq(Real(seatCount), Number(rule.seatLimit)) /\ seatCount # rule.seatLimit.n

\* seatCount >= rule.seatLimit
AtCapacity(seatCount, rule) == GreaterEq(Real(seatCount), Number(rule.seatLimit))

\* Mutant of MeetsStrictCgpa: the comparison is with minCgpa.
MeetsStrictCgpa_UsesMinCgpa(cgpa, rule) == GreaterEq(Number(cgpa), Number(rule.minCgpa))

\* Number(student.cgpa) >= rule.strictCgpa
MeetsStrictCgpa(cgpa, rule) == GreaterEq(Number(cgpa), Number(rule.strictCgpa))

\* `Minimum CGPA ${rule.minCgpa} required`
MinCgpaReason(rule) ==
  "Minimum CGPA "
    \o (IF rule.minCgpa.t = "undefined" THEN "undefined" ELSE NumberToString(rule.minCgpa.n))
    \o " required"
PrerequisiteReason == "Prerequisite not completed"

\* Mutant of AfterStudent: the CGPA check runs before the prerequisite check.
AfterStudent_CgpaFirst(student, rule) ==
  IF BelowMinCgpa(student.cgpa, rule) THEN "rejectCgpa"
  ELSE IF PrerequisiteMissing(rule, CompletedSubjects(student)) THEN "rejectPrerequisite"
  ELSE "seatCount"

\* The write the handler issues next once the student is loaded: the
\* prerequisite check, then the CGPA check, else on to the seat count.
AfterStudent(student, rule) ==
  IF PrerequisiteMissing(rule, CompletedSubjects(student)) THEN "rejectPrerequisite"
  ELSE IF BelowMinCgpa(student.cgpa, rule) THEN "rejectCgpa"
  ELSE "seatCount"

\* The write the handler issues next once the seats are counted.
AfterSeatCount(seatCount, cgpa, rule) ==
  IF AtCapacity(seatCount, rule)
  THEN IF MeetsStrictCgpa(cgpa, rule) THEN "addStrict" ELSE "addWaitlist"
  ELSE "addNormal"

\* The frame of a call that has answered: its locals are gone (the reply of
\* the face service is kept as the record of what the service answered).
Done(frame, status, body) ==
  [IdleFrame EXCEPT !.pc = "done", !.id = frame.id, !.reply = frame.reply,
                    !.res = [status |-> status, body |-> body]]
Started(c) == calls[c].pc # "idle"
\* Calls are numbered in the order they arrive.
MayStart(c) == calls[c].pc = "idle" /\ \A d \in CallIds : d < c => Started(d)
Exists(id) == id \in 1..Len(requests)

\* ------------------------------ POST /approve-enrollment/:id of server.js
\* requestRef.get(), the 404 when the request is missing.
GetRequest(c, id) ==
  /\ MayStart(c)
  /\ calls' = [calls EXCEPT ![c] =
       IF ~Exists(id)
       THEN Done([@ EXCEPT !.id = id], 404, "Request not found")
       ELSE [@ EXCEPT !.pc = "getStudent", !.id = id,
                      !.studentUid = requests[id].studentUid,
                      !.status = requests[id].status,
                      !.course = toLowerCase(requests[id].course)]]
  /\ UNCHANGED <<requests, users, enrollments, waitlist, userOps>>

\* requestRef.get() throws: the catch block answers 500 and writes nothing.
GetRequestFault(c, id) ==
  /\ MayStart(c)
  /\ calls' = [calls EXCEPT ![c] = Done([@ EXCEPT !.id = id], 500, "Enrollment failed")]
  /\ UNCHANGED <<requests, users, enrollments, waitlist, userOps>>

\* users.doc(request.studentUid).get(), the 404 when the student is missing,
\* then the rule lookup and the two eligibility checks.
GetStudent(c) ==
  /\ calls[c].pc = "getStudent"
  /\ LET student == users[calls[c].studentUid]
         rule == RuleFor(calls[c].course)
     IN calls' = [calls EXCEPT ![c] =
          IF ~student.exists
          THEN Done(@, 404, "Student not found")
          ELSE [@ EXCEPT !.pc = AfterStudent(student, rule), !.cgpa = student.cgpa]]
  /\ UNCHANGED <<requests, users, enrollments, waitlist, userOps>>

\* requestRef.update({status: "rejected", reason: "Prerequisite not completed"})
RejectPrerequisite(c) ==
  /\ calls[c].pc = "rejectPrerequisite"
  /\ requests' = [requests EXCEPT ![calls[c].id].status = "rejected",
                                  ![calls[c].id].reason = PrerequisiteReason]
  /\ calls' = [calls EXCEPT ![c] = Done(@, 200, "Rejected - prerequisite not completed")]
  /\ UNCHANGED <<users, enrollments, waitlist, userOps>>

\* requestRef.update({status: "rejected", reason: `Minimum CGPA ... required`})
RejectCgpa(c) ==
  /\ calls[c].pc = "rejectCgpa"
  /\ requests' = [requests EXCEPT ![calls[c].id].status = "rejected",
                    ![calls[c].id].reason = MinCgpaReason(RuleFor(calls[c].course))]
  /\ calls' = [calls EXCEPT ![c] = Done(@, 200, "Rejected - CGPA below requirement")]
  /\ UNCHANGED <<users, enrollments, waitlist, userOps>>

\* enrollments.where("course", "==", course).get(), then the capacity branch.
SeatCount(c) ==
  /\ calls[c].pc = "seatCount"
  /\ LET seatCount == CountWhere(enrollments, calls[c].course)
     IN calls' = [calls EXCEPT ![c].seatCount = seatCount,
            ![c].pc = AfterSeatCount(seatCount, calls[c].cgpa, RuleFor(calls[c].course))]
  /\ UNCHANGED <<requests, users, enrollments, waitlist, userOps>>

EnrollmentDoc(c) ==
  [studentUid |-> calls[c].studentUid, course |-> calls[c].course, cgpa |-> calls[c].cgpa]

\* enrollments.add(...) of the strict branch
AddStrict(c) ==
  /\ calls[c].pc = "addStrict"
  /\ enrollments' = Add(enrollments, EnrollmentDoc(c))
  /\ calls' = [calls EXCEPT ![c].pc = "approveStrict"]
  /\ UNCHANGED <<requests, users, waitlist, userOps>>

\* requestRef.update({status: "approved"}) of the strict branch
ApproveStrict(c) ==
  /\ calls[c].pc = "approveStrict"
  /\ requests' = [requests EXCEPT ![calls[c].id].status = "approved"]
  /\ calls' = [calls EXCEPT ![c] = Done(@, 200, "Approved under strict CGPA criteria")]
  /\ UNCHANGED <<users, enrollments, waitlist, userOps>>

\* waitlist.add(...)
AddWaitlist(c) ==
  /\ calls[c].pc = "addWaitlist"
  /\ waitlist' = Add(waitlist, EnrollmentDoc(c))
  /\ calls' = [calls EXCEPT ![c].pc = "markWaitlisted"]
  /\ UNCHANGED <<requests, users, enrollments, userOps>>

\* requestRef.update({status: "waitlisted"})
MarkWaitlisted(c) ==
  /\ calls[c].pc = "markWaitlisted"
  /\ requests' = [requests EXCEPT ![calls[c].id].status = "waitlisted"]
  /\ calls' = [calls EXCEPT ![c] = Done(@, 200, "Added to waitlist")]
  /\ UNCHANGED <<users, enrollments, waitlist, userOps>>

\* enrollments.add(...) of the normal approval
AddNormal(c) ==
  /\ calls[c].pc = "addNormal"
  /\ enrollments' = Add(enrollments, EnrollmentDoc(c))
  /\ calls' = [calls EXCEPT ![c].pc = "approveNormal"]
  /\ UNCHANGED <<requests, users, waitlist, userOps>>

\* Mutant of ApproveNormal: the approval is written to the student's document
\* too, replacing it.
ApproveNormal_WritesStudent(c) ==
  /\ calls[c].pc = "approveNormal"
  /\ requests' = [requests EXCEPT ![calls[c].id].status = "approved"]
  /\ users' = [users EXCEPT ![calls[c].studentUid] = NewStudent]
  /\ calls' = [calls EXCEPT ![c] = Done(@, 200, "Enrollment approved successfully")]
  /\ UNCHANGED <<enrollments, waitlist, userOps>>

\* requestRef.update({status: "approved"}) of the normal approval
ApproveNormal(c) ==
  /\ calls[c].pc = "approveNormal"
  /\ requests' = [requests EXCEPT ![calls[c].id].status = "approved"]
  /\ calls' = [calls EXCEPT ![c] = Done(@, 200, "Enrollment approved successfully")]
  /\ UNCHANGED <<users, enrollments, waitlist, userOps>>

\* The awaited store calls of the handler, by the position that issues them.
StorePcs ==
  {"getStudent", "rejectPrerequisite", "rejectCgpa", "seatCount", "addStrict",
   "approveStrict", "addWaitlist", "markWaitlisted", "addNormal", "approveNormal"}

\* An awaited store call throws: the catch block answers 500 and writes nothing.
StoreFault(c) ==
  /\ calls[c].pc \in StorePcs
  /\ calls' = [calls EXCEPT ![c] = Done(@, 500, "Enrollment failed")]
  /\ UNCHANGED <<requests, users, enrollments, waitlist, userOps>>

Environment ==
  \/ \E u \in Uids, co \in Courses : Enroll(u, co)
  \/ \E u \in Uids : CreateStudent(u)
  \/ \E u \in Uids, g \in CgpaInputs, s \in SemesterInputs : SaveProfile(u, g, s)
  \/ \E u \in Uids : DeleteUser(u)

Next ==
  \/ Environment
  \/ \E c \in CallIds, id \in ReqIds : GetRequest(c, id)
  \/ \E c \in CallIds, id \in ReqIds : GetRequestFault(c, id)
  \/ \E c \in CallIds :
       \/ GetStudent(c)
       \/ RejectPrerequisite(c)
       \/ RejectCgpa(c)
       \/ SeatCount(c)
       \/ AddStrict(c)
       \/ ApproveStrict(c)
       \/ AddWaitlist(c)
       \/ MarkWaitlisted(c)
       \/ AddNormal(c)
       \/ ApproveNormal(c)
       \/ StoreFault(c)

Spec == Init /\ [][Next]_vars

\* ------------------------ POST /approve-enrollment/:id of unnamed/part_000
\* What the fetch of the face service can end with.
FaceServiceReplies == {"2xx", "non-2xx", "network error"}

\* Mutant of callFaceService: response.ok is not looked at, only a failed
\* fetch throws.
callFaceService_IgnoresStatus(reply) ==
  IF reply = "network error" THEN "failure" ELSE "success"

\* Mutant of callFaceService: the catch block logs the error and does not
\* throw it again, so a failed fetch returns like a success.
callFaceService_SwallowsNetworkError(reply) ==
  IF reply = "non-2xx" THEN "failure" ELSE "success"

\* callFaceService: the text of a 2xx response is returned; a response that
\* is not ok and a failed fetch are thrown.  One fetch, no retry.
callFaceService(reply) == IF reply = "2xx" THEN "success" ELSE "failure"

\* A call whose promise was rejected outside every try block: no response.
Unhandled(frame) ==
  [IdleFrame EXCEPT !.pc = "unhandled", !.id = frame.id, !.reply = frame.reply]

\* The first statement of the handler, before its try block, reads
\* enrollment.studentUid.  No enrollment is in scope there (the const of that
\* name is declared inside the try block), so the name is looked up in the
\* global scope, which this file never writes: the read throws a
\* ReferenceError and the async handler rejects without a response.
GatedLogThrows(c, id) ==
  /\ MayStart(c)
  /\ calls' = [calls EXCEPT ![c] = Unhandled([@ EXCEPT !.id = id])]
  /\ UNCHANGED <<requests, users, enrollments, waitlist, userOps>>

\* The try block, which runs only where the host defines a global of that
\* name: ref.get() and the 404 when the request is missing.
GatedGetRequest(c, id) ==
  /\ MayStart(c)
  /\ calls' = [calls EXCEPT ![c] =
       IF ~Exists(id)
       THEN Done([@ EXCEPT !.id = id], 404, "Enrollment request not found")
       ELSE [@ EXCEPT !.pc = "encode", !.id = id,
                      !.studentUid = requests[id].studentUid,
                      !.status = requests[id].status,
                      !.course = requests[id].course]]
  /\ UNCHANGED <<requests, users, enrollments, waitlist, userOps>>

\* ref.get() throws: the catch block is entered.
GatedGetRequestFault(c, id) ==
  /\ MayStart(c)
  /\ calls' = [calls EXCEPT ![c] = [@ EXCEPT !.pc = "markEncodingFailed", !.id = id]]
  /\ UNCHANGED <<requests, users, enrollments, waitlist, userOps>>

\* Mutant of AfterEncode: the approval follows whatever the call returned.
AfterEncode_FireAndForget(result) == "approveGated"

\* Where the handler goes after the awaited callFaceService: on to the
\* approval when it returned, to the catch block when it threw.
AfterEncode(result) ==
  IF result = "success" THEN "approveGated" ELSE "markEncodingFailed"

\* await callFaceService(.../encode-student, ...)
Encode(c, reply) ==
  /\ calls[c].pc = "encode"
  /\ calls' = [calls EXCEPT ![c].reply = reply,
                            ![c].pc = AfterEncode(callFaceService(reply))]
  /\ UNCHANGED <<requests, users, enrollments, waitlist, userOps>>

\* ref.update({status: "approved", encodingStatus: "success"})
GatedApprove(c) ==
  /\ calls[c].pc = "approveGated"
  /\ requests' = [requests EXCEPT ![calls[c].id].status = "approved",
                                  ![calls[c].id].encodingStatus = "success"]
  /\ calls' = [calls EXCEPT ![c] =
       Done(@, 200, "Enrollment approved and face encoded successfully")]
  /\ UNCHANGED <<users, enrollments, waitlist, userOps>>

\* That update throws: the catch block is entered.
GatedApproveFault(c) ==
  /\ calls[c].pc = "approveGated"
  /\ calls' = [calls EXCEPT ![c].pc = "markEncodingFailed"]
  /\ UNCHANGED <<requests, users, enrollments, waitlist, userOps>>

\* The catch block: update({status: "encoding_failed"}), then the 500.  The
\* update of a document that does not exist throws, and so leaves the catch
\* block without a response.
MarkEncodingFailed(c) ==
  /\ calls[c].pc = "markEncodingFailed"
  /\ IF Exists(calls[c].id)
     THEN /\ requests' = [requests EXCEPT ![calls[c].id].status = "encoding_failed"]
          /\ calls' = [calls EXCEPT ![c] =
               Done(@, 500, "Face encoding failed. Enrollment not approved.")]
     ELSE /\ calls' = [calls EXCEPT ![c] = Unhandled(@)]
          /\ UNCHANGED requests
  /\ UNCHANGED <<users, enrollments, waitlist, userOps>>

\* The update of the catch block throws.
MarkEncodingFailedFault(c) ==
  /\ calls[c].pc = "markEncodingFailed"
  /\ calls' = [calls EXCEPT ![c] = Unhandled(@)]
  /\ UNCHANGED <<requests, users, enrollments, waitlist, userOps>>

\* part_000 has the intake and the account routes, and no profile route.
NextGated ==
  \/ \E u \in Uids, co \in Courses : Enroll(u, co)
  \/ \E u \in Uids : CreateStudent(u)
  \/ \E u \in Uids : DeleteUser(u)
  \/ \E c \in CallIds, id \in ReqIds :
       \/ GatedLogThrows(c, id)
       \/ GatedGetRequest(c, id)
       \/ GatedGetRequestFault(c, id)
  \/ \E c \in CallIds :
       \/ \E reply \in FaceServiceReplies : Encode(c, reply)
       \/ GatedApprove(c)
       \/ GatedApproveFault(c)
       \/ MarkEncodingFailed(c)
       \/ MarkEncodingFailedFault(c)

SpecGated == Init /\ [][NextGated]_vars

\* The store calls the handler awaits settle, so a call waiting on ref.update
\* goes on.  callFaceService awaits fetch(url, {method, headers, body}): no
\* timeout, no abort signal and no timer, so nothing in the code makes a call
\* waiting for the face service go on when the service stays silent.
SpecGatedFair ==
  /\ SpecGated
  /\ \A c \in CallIds : WF_vars(GatedApprove(c) \/ MarkEncodingFailed(c))

\* ================================================================== claims
\* The call c takes this step.
Stepped(c) == calls'[c] # calls[c]
InFlight(c) == calls[c].pc \notin {"idle", "done", "unhandled"}
StoreUnchanged == UNCHANGED <<requests, enrollments, waitlist>>

\* The rule a course resolves to has a seat limit.
HasSeatLimit(course) == RuleFor(course).seatLimit.t = "number"

\* The enrollment records of a course whose cgpa is below the strict CGPA of
\* the course's rule.
BelowStrictCount(course) ==
  BagCardinality(
    [e \in {d \in DOMAIN enrollments :
              /\ d.course = course
              /\ d.cgpa.t = "number"
              /\ Less(Number(d.cgpa), Number(RuleFor(course).strictCgpa))} |-> enrollments[e]])

\* C1: under every interleaving of concurrent approve calls on distinct
\* requests, the enrollment records of a course for students below the strict CGPA never exceed the
\* course's seat limit.
DistinctRequests ==
  \A c, d \in CallIds : (c # d /\ Started(c) /\ Started(d)) => calls[c].id # calls[d].id
C1_SeatLimitNeverOvershot ==
  DistinctRequests =>
    \A course \in LowerCourses :
       HasSeatLimit(course) => BelowStrictCount(course) <= RuleFor(course).seatLimit.n

\* C2: a call that read a request already out of pending changes no request
\* status and adds no enrollment record and no waitlist entry.
C2_DecidedRequestIsNotReevaluated ==
  [][\A c \in CallIds :
       (InFlight(c) /\ calls[c].status # "pending" /\ Stepped(c)) => StoreUnchanged]_vars

\* How many documents of a collection are of a request's student and
\* lower-cased course.
CountWhereStudent(coll, r) ==
  BagCardinality(
    [e \in {d \in DOMAIN coll :
              d.studentUid = r.studentUid /\ d.course = toLowerCase(r.course)} |-> coll[e]])

\* The side records of a request: of its student and its lower-cased course.
HasRecord(coll, r) ==
  \E d \in DOMAIN coll : d.studentUid = r.studentUid /\ d.course = toLowerCase(r.course)

\* C3: in every reachable state a request is approved exactly when an
\* enrollment record exists for its student and course, and waitlisted exactly
\* when a waitlist entry exists for them.
C3_StatusIffSideRecord ==
  \A id \in 1..Len(requests) :
     /\ (requests[id].status = "approved") <=> HasRecord(enrollments, requests[id])
     /\ (requests[id].status = "waitlisted") <=> HasRecord(waitlist, requests[id])

\* ------------------------------------------------ the gated handler's claims
FailureReplies == {"non-2xx", "network error"}
Answers(c) == calls[c].pc # "done" /\ calls'[c].pc = "done"

\* C4: when the face service answers a call on a pending request with a
\* failure (a response that is not 2xx, or a network error), the call ends
\* with the request in status encoding_failed and no enrollment record for it.
C4_VerificationFailureEndsEncodingFailed ==
  [][\A c \in CallIds :
       (calls[c].reply \in FailureReplies /\ calls[c].status = "pending" /\ Answers(c))
         => /\ requests'[calls[c].id].status = "encoding_failed"
            /\ ~HasRecord(enrollments', requests'[calls[c].id])
            /\ calls'[c].res.status = 500]_vars

\* C4's case: a call has answered after a failed verification and the request
\* is in encoding_failed.
C4_Witness ==
  \E c \in CallIds :
     /\ calls[c].pc = "done"
     /\ calls[c].reply \in FailureReplies
     /\ calls[c].res.status = 500
     /\ requests[calls[c].id].status = "encoding_failed"
     /\ ~HasRecord(enrollments, requests[calls[c].id])

\* C5: a request becomes approved only in a step of a call on that request
\* whose verification call has returned success (a 2xx reply).
C5_ApprovedOnlyAfterVerification ==
  [][\A id \in 1..Len(requests) :
       (requests[id].status # "approved" /\ requests'[id].status = "approved")
         => \E c \in CallIds :
              calls[c].id = id /\ calls[c].reply = "2xx" /\ Stepped(c)]_vars

\* C5's case: a verified call has approved its request.
C5_Witness ==
  \E c \in CallIds :
     /\ calls[c].pc = "done"
     /\ calls[c].reply = "2xx"
     /\ calls[c].res.status = 200
     /\ requests[calls[c].id].status = "approved"

\* ------------------------------------------- the rule-based handler's claims
CapacityPcs ==
  {"addStrict", "approveStrict", "addWaitlist", "markWaitlisted", "addNormal",
   "approveNormal"}
\* The step of c is not the catch block of a thrown store call.
NoFault(c) == calls'[c].res.status # 500

\* C6: a request whose rule has a prerequisite that is not among the student's
\* completed subjects is rejected with reason "Prerequisite not completed"
\* whatever the student's cgpa, and nothing is added to enrollments or waitlist.
C6_PrerequisiteDecidesBeforeCgpa ==
  [][\A c \in CallIds :
       /\ ( /\ calls[c].pc = "getStudent" /\ Stepped(c) /\ NoFault(c)
            /\ users[calls[c].studentUid].exists
            /\ LET rule == RuleFor(calls[c].course)
               IN /\ rule.prerequisite # NoPrerequisite
                  /\ ~Includes(CompletedSubjects(users[calls[c].studentUid]),
                               rule.prerequisite) )
            => calls'[c].pc = "rejectPrerequisite" /\ StoreUnchanged
       /\ (calls[c].pc = "rejectPrerequisite" /\ Stepped(c) /\ NoFault(c))
            => /\ requests'[calls[c].id].status = "rejected"
               /\ requests'[calls[c].id].reason = "Prerequisite not completed"
               /\ UNCHANGED <<enrollments, waitlist>>]_vars

\* C6's case: a student with no cgpa at all, missing the prerequisite, has been
\* rejected for the prerequisite.
C6_Witness ==
  \E id \in 1..Len(requests) :
     /\ requests[id].status = "rejected"
     /\ requests[id].reason = "Prerequisite not completed"
     /\ users[requests[id].studentUid].exists
     /\ users[requests[id].studentUid].cgpa = Undefined
     /\ ~HasRecord(enrollments, requests[id])
     /\ ~HasRecord(waitlist, requests[id])

\* C7: a call that counted at least the seatLimit of its resolved rule adds an
\* enrollment record and approves only when cgpa >= strictCgpa, and otherwise
\* adds a waitlist entry, marks the request waitlisted and adds no enrollment
\* record.
C7_AtCapacityStrictOrWaitlist ==
  [][\A c \in CallIds :
       LET f == calls[c]
           rule == RuleFor(f.course)
           strict == GreaterEq(Number(f.cgpa), Number(rule.strictCgpa))
       IN ( /\ f.pc \in CapacityPcs /\ HasSeatLimit(f.course)
            /\ f.seatCount >= rule.seatLimit.n /\ Stepped(c) /\ NoFault(c) )
            => IF strict
               THEN /\ f.pc \in {"addStrict", "approveStrict"}
                    /\ waitlist' = waitlist
                    /\ f.pc = "addStrict" => enrollments' = Add(enrollments, EnrollmentDoc(c))
                    /\ f.pc = "approveStrict" => requests'[f.id].status = "approved"
               ELSE /\ f.pc \in {"addWaitlist", "markWaitlisted"}
                    /\ enrollments' = enrollments
                    /\ f.pc = "addWaitlist" => waitlist' = Add(waitlist, EnrollmentDoc(c))
                    /\ f.pc = "markWaitlisted" => requests'[f.id].status = "waitlisted"]_vars

\* C7's case: with the course full, a student below the strict CGPA has been
\* waitlisted.
C7_Witness ==
  \E c \in CallIds :
     /\ calls[c].pc = "done"
     /\ calls[c].res.body = "Added to waitlist"
     /\ requests[calls[c].id].status = "waitlisted"
     /\ HasRecord(waitlist, requests[calls[c].id])
     /\ HasSeatLimit(toLowerCase(requests[calls[c].id].course))
     /\ CountWhere(enrollments, toLowerCase(requests[calls[c].id].course))
          >= RuleFor(toLowerCase(requests[calls[c].id].course)).seatLimit.n

MissingOrNonNumeric(cgpa) == cgpa.t = "undefined" \/ (cgpa.t = "string" /\ cgpa.s = "abc")

\* C9: a call that loaded a student whose cgpa is missing or non-numeric
\* rejects (for the minimum CGPA, or before that for the prerequisite) and never
\* goes on to the seat count, an approval or the waitlist.
C9_MissingCgpaFailsClosed ==
  \A c \in CallIds :
     (calls[c].pc \in (StorePcs \ {"getStudent"}) /\ MissingOrNonNumeric(calls[c].cgpa))
       => calls[c].pc \in {"rejectPrerequisite", "rejectCgpa"}

\* C10: while no write to users has happened, a call on a request id that
\* does not exist, or on a request whose student has no document, changes no
\* collection and, when it ends other than by a store fault, answers 404.
C10_NotFoundChangesNothing ==
  [][\A c \in CallIds :
       LET id == calls'[c].id
       IN ( /\ Stepped(c) /\ userOps' = 0
            /\ (~Exists(id) \/ ~users[requests[id].studentUid].exists) )
            => /\ StoreUnchanged
               /\ calls'[c].pc \in {"done", "unhandled"}
                    => calls'[c].res.status \in {404, 500}]_vars

\* C11: a request's status changes at most once: a status that has left
\* pending is not replaced by a different status by any later or concurrent call.
C11_StatusChangesAtMostOnce ==
  [][\A id \in 1..Len(requests) :
       requests[id].status # "pending" => requests'[id].status = requests[id].status]_vars

\* C12: every decision call that has started eventually ends with a response
\* to its caller, a result or an error; a call does not wait forever on the
\* verification service.
C12_EveryCallIsAnswered ==
  \A c \in CallIds : Started(c) ~> (calls[c].pc = "done")

\* C13: a call on a pending request that ends through an unexpected fault,
\* with no verification result and no answer of its own (200 or 404), leaves
\* the request pending and answers its caller with a failure (500).
C13_FaultLeavesRequestPending ==
  [][\A c \in CallIds :
       LET id == calls'[c].id
       IN ( /\ Stepped(c)
            /\ calls'[c].pc \in {"done", "unhandled"}
            /\ calls'[c].reply = "none"
            /\ calls'[c].res.status \notin {200, 404}
            /\ Exists(id)
            /\ requests[id].status = "pending" )
            => /\ requests'[id].status = "pending"
               /\ calls'[c].res.status = 500]_vars

\* C14: the rule a call decides with is the entry the configuration lists
\* under the lower-cased course of its request, and the default rule (no
\* prerequisite, minCgpa 7.0, strictCgpa 8.0, seatLimit 80) for every course the
\* configuration does not list.
C14_RuleIsListedOrDefault ==
  \A c \in CallIds :
     calls[c].pc \in StorePcs
       => RuleFor(calls[c].course)
            = ListedOrDefault(toLowerCase(requests[calls[c].id].course))

\* C15: in every reachable state a request that carries a reason has status
\* rejected: no request with a reason is approved or waitlisted.
C15_ReasonOnlyWhenRejected ==
  \A id \in 1..Len(requests) :
     requests[id].reason # NoReason => requests[id].status = "rejected"

\* C16: a waitlist entry is written only by a call whose student has a cgpa
\* below the strictCgpa of the course's rule, and at the moment it is written
\* the course has at least seatLimit enrollment records.
C16_WaitlistOnlyBelowStrictAtCapacity ==
  [][\A c \in CallIds :
       LET f == calls[c]
           rule == RuleFor(f.course)
       IN (Stepped(c) /\ waitlist' # waitlist)
            => /\ Less(Number(f.cgpa), Number(rule.strictCgpa))
               /\ GreaterEq(Real(CountWhere(enrollments, f.course)), Number(rule.seatLimit))]_vars

C18_ApproveLeavesUsersUnchanged ==
  [][(\E c \in CallIds : Stepped(c)) => users' = users]_vars

\* C18's case: a call has approved a request and every student document is
\* as it was at the start.
C18_Witness ==
  \E c \in CallIds :
     /\ calls[c].pc = "done"
     /\ calls[c].res.status = 200
     /\ requests[calls[c].id].status = "approved"
     /\ userOps = 0
     /\ users = InitialUsers

\* C19: the step in which callFaceService settles changes no collection; the
\* call goes on to the approval only for a 2xx reply and enters the catch
\* block for a reply that is not 2xx and for a network error, after the one
\* fetch, with no second attempt.
C19_AdapterClassifiesAndWritesNothing ==
  [][\A c \in CallIds :
       (calls[c].pc = "encode" /\ Stepped(c))
         => /\ UNCHANGED <<requests, users, enrollments, waitlist>>
            /\ calls'[c].reply \in FaceServiceReplies
            /\ calls'[c].reply = "2xx" <=> calls'[c].pc = "approveGated"
            /\ calls'[c].reply \in FailureReplies <=> calls'[c].pc = "markEncodingFailed"]_vars

\* C19's case: the fetch of a call failed with a network error: the call is in
\* the catch block and its request is still pending, while another call
\* whose fetch got a 2xx is about to approve.
C19_Witness ==
  \E c, d \in CallIds :
     /\ calls[c].pc = "markEncodingFailed"
     /\ calls[c].reply = "network error"
     /\ requests[calls[c].id].status = "pending"
     /\ calls[d].pc = "approveGated"
     /\ calls[d].reply = "2xx"

\* The enrollment records and waitlist entries of a request's student and
\* lower-cased course.
SideRecords(r) ==
  CountWhereStudent(enrollments, r) + CountWhereStudent(waitlist, r)

\* C20: while two calls on the same pending request are in flight, both
\* having read it as pending, and no other request is of the same student and
\* course, the request has at most one side record in all: one enrollment
\* record or one waitlist entry.
C20_ConcurrentCallsAddOneSideRecord ==
  \A c, d \in CallIds :
     ( /\ c # d /\ InFlight(c) /\ InFlight(d)
       /\ calls[c].id = calls[d].id
       /\ calls[c].status = "pending" /\ calls[d].status = "pending"
       /\ \A i, j \in 1..Len(requests) :
            (requests[i].studentUid = requests[j].studentUid
               /\ toLowerCase(requests[i].course) = toLowerCase(requests[j].course)) => i = j )
       => SideRecords(requests[calls[c].id]) <= 1

\* C21: no step of the server deletes or rewrites an enrollment record: every
\* record stays, with at least as many copies, so the count of each course
\* never decreases, and a call that counted at least seatLimit records finds
\* at least that many when it writes.
C21_EnrollmentRecordsOnlyGrow ==
  [][/\ \A d \in DOMAIN enrollments :
          d \in DOMAIN enrollments' /\ enrollments'[d] >= enrollments[d]
     /\ \A course \in LowerCourses :
          CountWhere(enrollments', course) >= CountWhere(enrollments, course)
     /\ \A c \in CallIds :
          (calls'[c].pc \in CapacityPcs /\ HasSeatLimit(calls'[c].course)
             /\ calls'[c].seatCount >= RuleFor(calls'[c].course).seatLimit.n)
            => CountWhere(enrollments', calls'[c].course) >= calls'[c].seatCount]_vars

\* C21's case: a student with an enrollment record has been deleted from
\* users and the record is still there, while a call that counted the course
\* full is about to write.
C21_Witness ==
  /\ \E uid \in Uids :
        /\ ~users[uid].exists
        /\ InitialUsers[uid].exists
        /\ \E d \in DOMAIN enrollments : d.studentUid = uid
  /\ \E c \in CallIds :
        /\ calls[c].pc \in {"addStrict", "addWaitlist"}
        /\ HasSeatLimit(calls[c].course)
        /\ calls[c].seatCount >= RuleFor(calls[c].course).seatLimit.n

\* A subject of the sequence is the given one up to letter case.
IncludesAnyCase(seq, x) == \E i \in 1..Len(seq) : toLowerCase(seq[i]) = toLowerCase(x)

\* C22: a call whose student has the prerequisite of the course's rule among
\* the completed subjects, in whatever letter case the profile stored it, does
\* not go on to the rejection "Prerequisite not completed".
C22_StoredCaseDoesNotReject ==
  [][\A c \in CallIds :
       LET rule == RuleFor(calls[c].course)
           student == users[calls[c].studentUid]
       IN ( /\ calls[c].pc = "getStudent" /\ Stepped(c)
            /\ student.exists
            /\ rule.prerequisite # NoPrerequisite
            /\ IncludesAnyCase(CompletedSubjects(student), rule.prerequisite) )
            => calls'[c].pc # "rejectPrerequisite"]_vars
====
